---- MODULE Spec2Model ----
(***************************************************************************)
(* A model of the anthropic-sender scripts.                                *)
(*                                                                         *)
(*   Spec       index.js main: repeated cron runs sharing the state file   *)
(*              sent-articles.json (load, discover, download, write the    *)
(*              document, send to Kindle, send the confirmation, save).    *)
(*   SpecImg    the image downloaders (index.js downloadFile and the three *)
(*              downloadImage of extract-articles.js and compile-epub.js)  *)
(*              called one after the other by an awaiting loop: requests,  *)
(*              responses, the timeout timer, the promise, the file.       *)
(*   SpecBatch  the image pipelines around those downloaders: a batch of   *)
(*              articles, one download per step, then the bodies of the    *)
(*              document with their <img> tags rewritten or removed.       *)
(*   SpecExtract   extractArticles of index.js applied to a listing page.  *)
(*   SpecContent   the choice of the body container by the extractor of   *)
(*              the all-articles script of extract-articles.js.            *)
(*   SpecSanitize  the clean-up of an extracted body by each extractor.    *)
(*   SpecCollect   the loop of each script that decides which extracted    *)
(*              articles go into the document.                             *)
(*   SpecAssemble  the sort of the articles and the category headings of  *)
(*              the compiled documents.                                    *)
(*                                                                         *)
(* Every await of the code is a step of the model: an action is the        *)
(* settling of the awaited promise together with the synchronous code that *)
(* runs up to the next await.                                              *)
(***************************************************************************)
EXTENDS Integers, Sequences, FiniteSets, TLC

\* ------------------------------------------------------------------ bounds

\* Number of cron runs of index.js that are followed.
MaxRuns == 2
\* Number of hyperlinks on one listing page.
MaxLinks == 1
\* Number of 301/302 hops a server answers with before its final response.
MaxRedirects == 1
\* Number of images the awaiting loop of SpecImg downloads.
MaxImages == 2
\* Length of the downloaders' timeout (8000 or 10000 ms), in timer ticks.
TimeoutTicks == 2
\* Number of articles of a batch, and of <img> tags in an article body.
MaxArticles == 2
MaxTags == 2
\* Number of hyperlinks of the listing page given to extractArticles.
MaxHrefs == 5
\* Number of saved pages (or downloaded articles) a script goes through.
MaxFiles == 3
\* Number of elements of the body given to the clean-up.
MaxElements == 2

\* Number of articles given to the sort of the document.
MaxSorted == 3

\* ----------------------------------------------------------- sequence helpers

Range(s) == {s[i] : i \in DOMAIN s}

RECURSIVE SeqsUpTo(_, _)
\* All sequences over S of length at most n.
SeqsUpTo(S, n) ==
  IF n = 0 THEN {<<>>}
  ELSE LET shorter == SeqsUpTo(S, n - 1)
       IN shorter \cup {Append(s, x) : s \in {t \in shorter : Len(t) = n - 1}, x \in S}

\* s.slice(0, n)
Slice(s, n) == SubSeq(s, 1, IF Len(s) < n THEN Len(s) ELSE n)

RECURSIVE SetOrder(_)
\* Array.from(new Set(s)): the elements of s in order of first insertion.
SetOrder(s) ==
  IF s = <<>> THEN <<>>
  ELSE LET front == SetOrder(SubSeq(s, 1, Len(s) - 1))
           last == s[Len(s)]
       IN IF last \in Range(front) THEN front ELSE Append(front, last)

\* ------------------------------------------------------------------- values

\* null, and the ISO timestamp new Date().toISOString() of run r (never null).
Null == <<>>
Timestamp(r) == <<r>>

\* A hyperlink of a listing page.  site: the href starts with
\* https://www.anthropic.com/ ; sect: which of /news/, /engineering/,
\* /research/ its path contains ("other": none of them).
Href(site, sect, slug) == [site |-> site, sect |-> sect, slug |-> slug]

ArticleA == Href(TRUE, "news", "a")
ArticleB == Href(TRUE, "research", "b")
Careers == Href(TRUE, "other", "careers")

\* The hyperlinks the listing pages of the model are made of.
ListingHrefs == {ArticleA, ArticleB, Careers}

\* The markup of a listing page, as the sequence of its hyperlinks.
Listings == SeqsUpTo(ListingHrefs, MaxLinks)

\* pages of main (index.js 308-312)
Pages == <<"news", "engineering", "research">>

\* <title> of the page served for url with the given status: the article's
\* own title for 200, the title of the server's error page otherwise.
ErrorTitle == "Not Found"
PageTitle(url, status) == IF status = 200 THEN url.slug ELSE ErrorTitle

\* What a server does with one GET: hops 301/302 answers, then either a
\* transport error (err) or a final response with a status and a body.
Response(hops, err, status, body) ==
  [hops |-> hops, err |-> err, status |-> status, body |-> body]

FinalStatuses == {200, 404}

ListingResponses ==
  {Response(h, e, s, b) : h \in 0..MaxRedirects, e \in BOOLEAN,
                          s \in {200}, b \in Listings}

ArticleResponses(url) ==
  {Response(h, e, s, [title |-> PageTitle(url, s), status |-> s]) :
     h \in 0..MaxRedirects, e \in BOOLEAN, s \in FinalStatuses}

\* ------------------------------------------------------------ pure functions

\* loadSentArticles: the parsed file when it exists and parses, else the
\* empty state.  A file is "absent", "garbage" (JSON.parse throws), "json"
\* (a RunState) or "object" (it parses, to an object without a sent
\* array, such as {"lastCheck": null}); what JSON.parse returns is
\* returned as it is.
EmptyState == [sent |-> <<>>, lastCheck |-> Null]
LoadSentArticles(file) ==
  CASE file.kind = "json" -> [sent |-> file.sent, lastCheck |-> file.lastCheck]
    [] file.kind = "object" -> [lastCheck |-> file.lastCheck]
    [] OTHER -> EmptyState

\* data.sent is an array: data.sent.map (306) does not throw.
HasSent(d) == "sent" \in DOMAIN d

\* A defect of the save: lastCheck is not written.
SaveWithoutLastCheck(d) == [kind |-> "json", sent |-> d.sent, lastCheck |-> Null]

\* saveSentArticles: the file content after writeFileSync.
SaveSentArticles(d) == [kind |-> "json", sent |-> d.sent, lastCheck |-> d.lastCheck]

RECURSIVE FetchUrl(_)
\* fetchUrl: a 301/302 response re-invokes fetchUrl on the location; a
\* transport error rejects; any other response resolves with its body (the
\* status is not looked at).
FetchUrl(resp) ==
  IF resp.hops > 0 THEN FetchUrl([resp EXCEPT !.hops = @ - 1])
  ELSE IF resp.err THEN [settled |-> "rejected", body |-> <<>>]
  ELSE [settled |-> "resolved", body |-> resp.body]

\* extractArticles: hrefs of the site whose path contains /news/,
\* /engineering/ or /research/, collected in a Set, first 3.
IsArticleHref(h) == h.site /\ h.sect \in {"news", "engineering", "research"}

\* A defect of the collection: an array instead of the Set.
ExtractArticlesRepeating(html) == Slice(SelectSeq(html, IsArticleHref), 3)

ExtractArticles(html) == Slice(SetOrder(SelectSeq(html, IsArticleHref)), 3)

\* A defect of the membership test: every listed url is taken as new.
NewOfUnfiltered(articles, sent) == articles

\* The urls of a listing that main keeps: those not in sentUrls (323-326).
NewOf(articles, sent) == SelectSeq(articles, LAMBDA u : u \notin sent)

\* downloadArticle: null when fetchUrl rejects, else the article data.
DownloadArticle(url, resp) ==
  LET got == FetchUrl(resp)
  IN IF got.settled = "rejected" THEN [ok |-> FALSE]
     ELSE [ok |-> TRUE, url |-> url, title |-> got.body.title,
           status |-> got.body.status]

\* createHtmlFile: one section per processed article that has data.
CreateHtmlFile(articles) ==
  [i \in DOMAIN articles |-> [url |-> articles[i].url, title |-> articles[i].title]]

\* ---------------------------------------------------------------- state

VARIABLES
  run,                \* number of the current run of index.js (0: none yet)
  pc,                 \* where main is: the await it is suspended at, or how it ended
  disk,               \* the state file sent-articles.json
  data,               \* main: data (the RunState in memory)
  sentUrls,           \* main: sentUrls
  pageIdx,            \* main: index into pages of the listing being fetched
  newArticles,        \* main: newArticles
  artIdx,             \* main: index into newArticles of the article being downloaded
  processedArticles,  \* main: processedArticles
  document,           \* the html file written by this run (<<>>: none)
  diskAtStart,        \* history: the state file as loadSentArticles found it
  pageLog,            \* history: per listing page fetched in this run, whether its
                      \* fetch resolved
  listed,             \* history: the urls, not in the loaded state, that the
                      \* listings of this run whose fetch resolved link to
  requested,          \* history: the urls passed to downloadArticle in this run
  unconfirmed,        \* history: the urls of the documents whose primary (Kindle)
                      \* delivery succeeded in a run whose confirmation mail failed
  ioLog,              \* history: what this run did so far with the state file
                      \* ("read", "write"), the network ("fetch": a fetch it
                      \* awaited has settled) and the mail client ("mail": a
                      \* mail was sent, "mailFailed": sendEmail rejected)
  variant,            \* which script's image code runs ("none": index.js main only)
  imgIdx,             \* the image whose download the loop awaits (0: none yet)
  promise,            \* per image: the promise its downloader call returned
  req,                \* per image: the GET request made for it
  hops,               \* per image: the redirects followed for it
  timer,              \* per image: ticks until its armed timeout fires (0: none armed)
  imgFile,            \* per image: the image file on disk
  batch,              \* the bodies of the articles of the batch, as extracted
  bpc,                \* where the batch is: "downloading", "written", or "hung"
                      \* at an await that never returns ("idle": no batch)
  cursor,             \* position of the image loops in the batch's downloads
  downloadedImages,   \* the downloads the script recorded as done (index.js
                      \* downloadedImages, localImages, downloadedImages, imageMap)
  imgLog,             \* history: the requests made, with what came of them
  bodies,             \* the bodies of the articles in the document written
  fn,                 \* the function applied on its own ("none": no such call)
  fnpc,               \* "called" or "returned" ("idle": no such call)
  arg,                \* its argument
  ret                 \* what it returned

mainVars == <<run, pc, disk, data, sentUrls, pageIdx, newArticles, artIdx,
              processedArticles, document, diskAtStart, pageLog, listed, requested,
              unconfirmed, ioLog>>

imgVars == <<imgIdx, promise, req, hops, timer, imgFile>>

batchVars == <<batch, bpc, cursor, downloadedImages, imgLog, bodies>>

fnVars == <<fn, fnpc, arg, ret>>

vars == <<mainVars, variant, imgVars, batchVars, fnVars>>

AbsentFile == [kind |-> "absent", sent |-> <<>>, lastCheck |-> Null]
GarbageFile == [kind |-> "garbage", sent |-> <<>>, lastCheck |-> Null]
ObjectFile == [kind |-> "object", sent |-> <<>>, lastCheck |-> Null]

\* What the first run can find at the path of the state file.
InitialFiles == {AbsentFile, GarbageFile, ObjectFile}

\* The urls of the records of a state file (none when it holds no state).
DiskUrls(file) ==
  IF file.kind = "json" THEN {file.sent[i].url : i \in DOMAIN file.sent} ELSE {}

Ended == {"idle", "crashed", "noNew", "noDownload", "failed", "done"}

MainInit ==
  /\ run = 0
  /\ pc = "idle"
  /\ data = EmptyState
  /\ sentUrls = {}
  /\ pageIdx = 0
  /\ newArticles = <<>>
  /\ artIdx = 0
  /\ processedArticles = <<>>
  /\ document = <<>>
  /\ diskAtStart = AbsentFile
  /\ pageLog = <<>>
  /\ listed = <<>>
  /\ requested = <<>>
  /\ unconfirmed = {}
  /\ ioLog = <<>>

Images == 1..MaxImages

\* No image loop runs.
ImgInit ==
  /\ imgIdx = 0
  /\ promise = [i \in Images |-> "none"]
  /\ req = [i \in Images |-> "none"]
  /\ hops = [i \in Images |-> 0]
  /\ timer = [i \in Images |-> 0]
  /\ imgFile = [i \in Images |-> "none"]

\* No batch is processed.
BatchIdle ==
  /\ batch = <<>>
  /\ bpc = "idle"
  /\ cursor = 1
  /\ downloadedImages = <<>>
  /\ imgLog = <<>>
  /\ bodies = <<>>

\* No function is applied on its own.
FnIdle ==
  /\ fn = "none"
  /\ fnpc = "idle"
  /\ arg = <<>>
  /\ ret = <<>>

Init ==
  /\ MainInit
  /\ disk \in InitialFiles
  /\ variant = "none"
  /\ ImgInit
  /\ BatchIdle
  /\ FnIdle

\* ---------------------------------------------------------------- index.js main

\* A run starts (cron): lines 303-319 up to the await of the first
\* listing, or up to the TypeError of data.sent.map at 306, with which
\* main rejects.
StartRun ==
  /\ pc \in Ended
  /\ run < MaxRuns
  /\ run' = run + 1
  /\ data' = LoadSentArticles(disk)
  /\ IF HasSent(data')
     THEN /\ sentUrls' = {data'.sent[i].url : i \in DOMAIN data'.sent}
          /\ pageIdx' = 1
          /\ pc' = "fetchPage"
     ELSE /\ sentUrls' = {}
          /\ pageIdx' = 0
          /\ pc' = "crashed"
  /\ diskAtStart' = disk
  /\ newArticles' = <<>>
  /\ artIdx' = 0
  /\ processedArticles' = <<>>
  /\ document' = <<>>
  /\ pageLog' = <<>>
  /\ listed' = <<>>
  /\ requested' = <<>>
  /\ ioLog' = <<"read">>
  /\ UNCHANGED <<disk, unconfirmed>>
  /\ UNCHANGED <<variant, imgVars, batchVars, fnVars>>

\* A defect of the error handling: a failed listing discards what the
\* earlier listings gave.
CollectedLostOnFailure(got) ==
  IF got.settled = "rejected" THEN <<>>
  ELSE newArticles \o NewOf(ExtractArticles(got.body), sentUrls)

\* What the loop over the listings has collected once the fetch of the
\* current page has settled with `got` (316-331).
Collected(got) ==
  IF got.settled = "rejected" THEN newArticles
  ELSE newArticles \o NewOf(ExtractArticles(got.body), sentUrls)

\* After the last listing: the "no new articles" exit (333-338) or the
\* start of the download loop (340-357).
AfterListings(found) ==
  IF found = <<>>
  THEN /\ data' = [data EXCEPT !.lastCheck = Timestamp(run)]
       /\ disk' = SaveSentArticles(data')
       /\ artIdx' = 0
       /\ requested' = requested
       /\ ioLog' = ioLog \o <<"fetch", "write">>
       /\ pc' = "noNew"
  ELSE /\ artIdx' = 1
       /\ requested' = Append(requested, found[1])
       /\ ioLog' = Append(ioLog, "fetch")
       /\ pc' = "downloadArticle"
       /\ UNCHANGED <<data, disk>>

\* The fetch of listing page pageIdx settles (319-331).
FetchListing ==
  /\ pc = "fetchPage"
  /\ \E resp \in ListingResponses :
       LET got == FetchUrl(resp)
           found == Collected(got)
       IN /\ newArticles' = found
          /\ pageLog' = Append(pageLog, got.settled = "resolved")
          /\ listed' = IF resp.err THEN listed
                        ELSE listed \o SelectSeq(ExtractArticles(resp.body),
                                                 LAMBDA u : u \notin DiskUrls(diskAtStart))
          /\ IF pageIdx < Len(Pages)
             THEN /\ pageIdx' = pageIdx + 1
                  /\ ioLog' = Append(ioLog, "fetch")
                  /\ UNCHANGED <<pc, data, disk, artIdx, requested>>
             ELSE /\ pageIdx' = pageIdx
                  /\ AfterListings(found)
  /\ UNCHANGED <<run, sentUrls, processedArticles, document, diskAtStart, unconfirmed>>
  /\ UNCHANGED <<variant, imgVars, batchVars, fnVars>>

\* The record main pushes to data.sent for a downloaded article (362-366).
SentRecord(url, articleData, r) ==
  [url |-> url, title |-> articleData.title, date |-> Timestamp(r)]

\* downloadArticle(newArticles[artIdx]) settles (357-367); after the last
\* one: nothing downloaded (370-373), or the document is written and the
\* Kindle mail is started (375-394).
DownloadStep ==
  /\ pc = "downloadArticle"
  /\ \E resp \in ArticleResponses(newArticles[artIdx]) :
       LET url == newArticles[artIdx]
           articleData == DownloadArticle(url, resp)
           processed == IF articleData.ok
                        THEN Append(processedArticles, [url |-> url, data |-> articleData])
                        ELSE processedArticles
       IN /\ processedArticles' = processed
          /\ data' = IF articleData.ok
                     THEN [data EXCEPT !.sent = Append(@, SentRecord(url, articleData, run))]
                     ELSE data
          /\ IF artIdx < Len(newArticles)
             THEN /\ artIdx' = artIdx + 1
                  /\ requested' = Append(requested, newArticles[artIdx + 1])
                  /\ UNCHANGED <<pc, document>>
             ELSE /\ UNCHANGED <<artIdx, requested>>
                  /\ IF processed = <<>>
                     THEN pc' = "noDownload" /\ UNCHANGED document
                     ELSE /\ document' = CreateHtmlFile([i \in DOMAIN processed |-> processed[i].data])
                          /\ pc' = "sendKindle"
  /\ ioLog' = Append(ioLog, "fetch")
  /\ UNCHANGED <<run, disk, sentUrls, pageIdx, newArticles, diskAtStart, pageLog,
                 listed, unconfirmed>>
  /\ UNCHANGED <<variant, imgVars, batchVars, fnVars>>

\* The urls of the sections of a document.
DocUrls(doc) == {doc[i].url : i \in DOMAIN doc}

\* A defect of the failure path: the state is saved when a send fails.
SavedAfterFailedSend(d) == SaveSentArticles(d)

\* The state file after a sendEmail has rejected: main rejects with it and
\* runs nothing more, the file is as it was.
AfterFailedSend(d) == disk

\* sendEmail to the Kindle address settles (389-399): osascript fails and
\* main rejects, or the confirmation mail is started.
SendKindle ==
  /\ pc = "sendKindle"
  /\ \E ok \in BOOLEAN :
       /\ pc' = IF ok THEN "sendConfirm" ELSE "failed"
       /\ ioLog' = Append(ioLog, IF ok THEN "mail" ELSE "mailFailed")
       /\ disk' = IF ok THEN disk ELSE AfterFailedSend(data)
  /\ UNCHANGED <<run, data, sentUrls, pageIdx, newArticles, artIdx,
                 processedArticles, document, diskAtStart, pageLog, listed,
                 requested, unconfirmed>>
  /\ UNCHANGED <<variant, imgVars, batchVars, fnVars>>

\* sendEmail to the notification address settles (399-411): main rejects,
\* or lastCheck is set and the state file written.
SendConfirm ==
  /\ pc = "sendConfirm"
  /\ \E ok \in BOOLEAN :
       IF ok
       THEN /\ data' = [data EXCEPT !.lastCheck = Timestamp(run)]
            /\ disk' = SaveSentArticles(data')
            /\ pc' = "done"
            /\ ioLog' = ioLog \o <<"mail", "write">>
            /\ UNCHANGED unconfirmed
       ELSE /\ pc' = "failed"
            /\ ioLog' = Append(ioLog, "mailFailed")
            /\ unconfirmed' = unconfirmed \cup DocUrls(document)
            /\ disk' = AfterFailedSend(data)
            /\ UNCHANGED data
  /\ UNCHANGED <<run, sentUrls, pageIdx, newArticles, artIdx,
                 processedArticles, document, diskAtStart, pageLog, listed,
                 requested>>
  /\ UNCHANGED <<variant, imgVars, batchVars, fnVars>>

Next ==
  \/ StartRun
  \/ FetchListing
  \/ DownloadStep
  \/ SendKindle
  \/ SendConfirm

Spec == Init /\ [][Next]_vars

\* ------------------------------------------------------- the image downloaders

\* The scripts that download images: index.js (downloadFile), the first
\* script of extract-articles.js (downloadImage(url, filepath)),
\* compile-epub.js (downloadImage(url), base64), the third script of
\* extract-articles.js (downloadImage(url, index), EPUB images on disk).
Variants == {"index", "html", "base64", "epub"}

\* The downloaders that arm setTimeout(() => resolve(null), ...).
HasTimeout(v) == v \in {"base64", "epub"}

\* The downloaders that pipe the response into a write stream.
Pipes(v) == v \in {"index", "html"}

\* What the downloader does with its promise on a final response whose
\* status is not 200.
OnErrorStatus(v) == IF v = "index" THEN "rejected" ELSE "null"

\* What the downloader does with its promise on the request's error event.
OnRequestError(v) == IF v \in {"index", "html"} THEN "rejected" ELSE "null"

\* resolve/reject on a promise: only the first call settles it.
Settle(p, outcome) == IF p = "pending" THEN outcome ELSE p

Settled(p) == p \in {"null", "value", "rejected"}

\* clearTimeout(timeout) of image i (nothing to clear without a timer).
Cleared(i) == [timer EXCEPT ![i] = 0]

\* The loop calls the downloader for its next image, the await of the
\* previous one having returned (or thrown into the loop's catch).  The
\* base64 and EPUB downloadImage resolve null at once for a data: url;
\* otherwise the request is sent and, where there is one, the timer armed.
CallDownload ==
  /\ variant \in Variants
  /\ imgIdx < MaxImages
  /\ imgIdx > 0 => Settled(promise[imgIdx])
  /\ imgIdx' = imgIdx + 1
  /\ \E dataUrl \in (IF HasTimeout(variant) THEN BOOLEAN ELSE {FALSE}) :
       IF dataUrl
       THEN /\ promise' = [promise EXCEPT ![imgIdx'] = "null"]
            /\ UNCHANGED <<req, timer>>
       ELSE /\ promise' = [promise EXCEPT ![imgIdx'] = "pending"]
            /\ req' = [req EXCEPT ![imgIdx'] = "waiting"]
            /\ timer' = [timer EXCEPT ![imgIdx'] =
                              IF HasTimeout(variant) THEN TimeoutTicks ELSE 0]
  /\ UNCHANGED <<mainVars, batchVars, fnVars, variant, hops, imgFile>>

\* The await of the last image returns: the loop is over.
LoopDone ==
  /\ variant \in Variants
  /\ imgIdx = MaxImages
  /\ Settled(promise[imgIdx])
  /\ imgIdx' = imgIdx + 1
  /\ UNCHANGED <<mainVars, batchVars, fnVars, variant, promise, req, hops, timer, imgFile>>

\* A 301/302 response: the timer is cleared and the downloader calls
\* itself on the location, which sends a new request and arms a new timer.
Redirect(i) ==
  /\ req[i] = "waiting"
  /\ hops[i] < MaxRedirects
  /\ hops' = [hops EXCEPT ![i] = @ + 1]
  /\ timer' = [timer EXCEPT ![i] = IF HasTimeout(variant) THEN TimeoutTicks ELSE 0]
  /\ UNCHANGED <<mainVars, batchVars, fnVars, variant, imgIdx, promise, req, imgFile>>

\* A final response whose status is not 200.
ErrorStatus(i) ==
  /\ req[i] = "waiting"
  /\ req' = [req EXCEPT ![i] = "over"]
  /\ timer' = Cleared(i)
  /\ promise' = [promise EXCEPT ![i] = Settle(@, OnErrorStatus(variant))]
  /\ UNCHANGED <<mainVars, batchVars, fnVars, variant, imgIdx, hops, imgFile>>

\* A 200 response arrives: the body starts to come in; the piping
\* downloaders create the file.
Ok200(i) ==
  /\ req[i] = "waiting"
  /\ req' = [req EXCEPT ![i] = "streaming"]
  /\ imgFile' = IF Pipes(variant) THEN [imgFile EXCEPT ![i] = "partial"] ELSE imgFile
  /\ UNCHANGED <<mainVars, batchVars, fnVars, variant, imgIdx, promise, hops, timer>>

\* The request's error event (no response).
RequestError(i) ==
  /\ req[i] = "waiting"
  /\ req' = [req EXCEPT ![i] = "over"]
  /\ timer' = Cleared(i)
  /\ promise' = [promise EXCEPT ![i] = Settle(@, OnRequestError(variant))]
  /\ UNCHANGED <<mainVars, batchVars, fnVars, variant, imgIdx, hops, imgFile>>

\* The body ends: the file is finished (piping), written (epub) or the
\* data URI built (base64), and the promise resolved with it.
ResponseEnd(i) ==
  /\ req[i] = "streaming"
  /\ req' = [req EXCEPT ![i] = "over"]
  /\ timer' = Cleared(i)
  /\ imgFile' = IF variant = "base64" THEN imgFile ELSE [imgFile EXCEPT ![i] = "complete"]
  /\ promise' = [promise EXCEPT ![i] = Settle(@, "value")]
  /\ UNCHANGED <<mainVars, batchVars, fnVars, variant, imgIdx, hops>>

\* The response breaks off in the body.  base64/epub: res.on('error')
\* clears the timer and resolves null.  The piping downloaders listen to
\* nothing on the response: when the socket fails the request's error
\* event rejects; when the connection is just closed the write stream
\* never finishes and nothing settles.
ResponseError(i) ==
  /\ req[i] = "streaming"
  /\ req' = [req EXCEPT ![i] = "over"]
  /\ timer' = Cleared(i)
  /\ \E socketError \in BOOLEAN :
       promise' = IF Pipes(variant)
                  THEN (IF socketError
                        THEN [promise EXCEPT ![i] = Settle(@, OnRequestError(variant))]
                        ELSE promise)
                  ELSE [promise EXCEPT ![i] = Settle(@, "null")]
  /\ UNCHANGED <<mainVars, batchVars, fnVars, variant, imgIdx, hops, imgFile>>

\* Time passes for the armed timer of image i; at its last tick the
\* callback runs resolve(null).  The request is not aborted.  (At most one
\* timer is armed at a time: the loop calls the next downloader only after
\* the timer of the current one has fired or been cleared, except for the
\* timer a redirect answer arms for a call already given up.)
Tick(i) ==
  /\ timer[i] > 0
  /\ timer' = [timer EXCEPT ![i] = @ - 1]
  /\ promise' = IF timer[i] = 1 THEN [promise EXCEPT ![i] = Settle(@, "null")]
                 ELSE promise
  /\ UNCHANGED <<mainVars, batchVars, fnVars, variant, imgIdx, req, hops, imgFile>>

Ticking == \E i \in Images : Tick(i)

ImgNext ==
  \/ CallDownload
  \/ LoopDone
  \/ \E i \in Images : Redirect(i)
  \/ \E i \in Images : ErrorStatus(i)
  \/ \E i \in Images : Ok200(i)
  \/ \E i \in Images : RequestError(i)
  \/ \E i \in Images : ResponseEnd(i)
  \/ \E i \in Images : ResponseError(i)
  \/ Ticking

\* The event loop runs a due timer callback and resumes a loop whose
\* awaited promise has settled; nothing makes a server answer.
ImgFairness ==
  /\ WF_vars(CallDownload)
  /\ WF_vars(LoopDone)
  /\ WF_vars(Ticking)

InitImg ==
  /\ MainInit
  /\ disk = AbsentFile
  /\ variant \in Variants
  /\ ImgInit
  /\ BatchIdle
  /\ FnIdle

SpecImg == InitImg /\ [][ImgNext]_vars /\ ImgFairness

\* ------------------------------------------------- the batch image pipelines

\* The image urls the articles of the model refer to (absolute urls).
ImageUrls == {"p", "q"}

\* An <img> tag of a body: the image it shows and what its src is: "remote"
\* (the url on the site), "local" (image-N.ext, images/<file>, file://<path>)
\* or "embedded" (a base64 data URI).
Tag(u, form) == [img |-> u, form |-> form]

\* article.content as extracted from the saved page: the sequence of its
\* <img> tags, none of them filtered out by the extraction.
Contents ==
  {[i \in DOMAIN s |-> Tag(s[i], "remote")] : s \in SeqsUpTo(ImageUrls, MaxTags)}

Batches == SeqsUpTo(Contents, MaxArticles)

RECURSIVE Flatten(_)
\* The concatenation of a sequence of sequences.
Flatten(ss) == IF ss = <<>> THEN <<>> ELSE Head(ss) \o Flatten(Tail(ss))

\* The srcs of the <img> tags of a body, in order.
Srcs(content) == [i \in DOMAIN content |-> content[i].img]

\* The images of one article that the script goes through: index.js the
\* first 5, processArticles the first 10, the others all of them.
ArticleImages(v, content) ==
  CASE v = "index" -> Slice(Srcs(content), 5)
    [] v = "html" -> Slice(Srcs(content), 10)
    [] OTHER -> Srcs(content)

\* The iterations of the image loops of a batch, in order.  base64: one per
\* element of the Set allImages (art 0: not tied to an article); the others:
\* one per image of each article.
Jobs(v, b) ==
  IF v = "base64"
  THEN LET all == SetOrder(Flatten([k \in DOMAIN b |-> ArticleImages(v, b[k])]))
       IN [i \in DOMAIN all |-> [art |-> 0, url |-> all[i]]]
  ELSE Flatten([k \in DOMAIN b |->
                  LET imgs == ArticleImages(v, b[k])
                  IN [i \in DOMAIN imgs |-> [art |-> k, url |-> imgs[i]]]])

\* What the server of an image does: answers 200 with the image, answers
\* another final status, refuses or resets the connection, or says nothing.
Behaviours == {"ok", "status", "neterr", "silent"}

\* How the promise of a downloader call ends for a server behaviour.  With
\* a silent server the downloaders with a timer resolve null when it fires;
\* those without one reject if the connection attempt itself times out
\* (ETIMEDOUT on the request) and otherwise stay pending.
Outcomes(v, b) ==
  CASE b = "ok" -> {"value"}
    [] b = "status" -> {OnErrorStatus(v)}
    [] b = "neterr" -> {OnRequestError(v)}
    [] b = "silent" -> IF HasTimeout(v) THEN {"null"} ELSE {"rejected", "pending"}

\* What came of a download.
Result(b, o) ==
  CASE b = "ok" -> "ok"
    [] b = "silent" -> IF o = "pending" THEN "waiting" ELSE "timeout"
    [] OTHER -> "failed"

\* Whether the loop records the download as done: index.js and
\* processArticles when the await did not throw (processArticles also on
\* the null of a non-200 answer), the base64 and EPUB loops when the value
\* is not null.
Recorded(v, o) == o = "value" \/ (v = "html" /\ o = "null")

\* The urls recorded as downloaded, whatever the article: the keys of
\* downloadedImages (base64) and of imageMap (EPUB), in insertion order.
MappedUrls ==
  SetOrder([i \in DOMAIN downloadedImages |-> downloadedImages[i].url])

Mapped == Range(MappedUrls)

\* The iterations still to come that make a request.  The EPUB loop skips
\* an image that is in imageMap.
Remaining ==
  {j \in cursor..Len(Jobs(variant, batch)) :
     ~(variant = "epub" /\ Jobs(variant, batch)[j].url \in Mapped)}

Min(S) == CHOOSE x \in S : \A y \in S : x <= y

\* String.prototype.replace(tag, repl): the first occurrence only; repl is
\* a sequence of tags (empty: the tag is removed).
ReplaceFirst(content, tag, repl) ==
  LET at == {i \in DOMAIN content : content[i] = tag}
  IN IF at = {} THEN content
     ELSE SubSeq(content, 1, Min(at) - 1) \o repl
          \o SubSeq(content, Min(at) + 1, Len(content))

\* content.split(url).join(localPath): every occurrence.
ReplaceAll(content, u) ==
  [i \in DOMAIN content |->
     IF content[i] = Tag(u, "remote") THEN Tag(u, "local") ELSE content[i]]

RECURSIVE SubstituteLocal(_, _)
\* index.js 235-238 and extract-articles.js 101: for each recorded
\* download, the first remaining occurrence of its url becomes the local name.
SubstituteLocal(content, done) ==
  IF done = <<>> THEN content
  ELSE SubstituteLocal(
         ReplaceFirst(content, Tag(Head(done).url, "remote"),
                      <<Tag(Head(done).url, "local")>>),
         Tail(done))

RECURSIVE ProcessMatches(_, _, _)
\* The loop of processImages over the <img> tags matched in the content.
ProcessMatches(result, matches, downloaded) ==
  IF matches = <<>> THEN result
  ELSE LET tag == Head(matches)
           repl == IF tag.img \in downloaded
                   THEN <<Tag(tag.img, "embedded")>> ELSE <<>>
       IN ProcessMatches(ReplaceFirst(result, tag, repl), Tail(matches), downloaded)

ProcessImages(content, downloaded) == ProcessMatches(content, content, downloaded)

RECURSIVE ReplaceMapped(_, _)
\* The loop over Object.entries(imageMap) of the EPUB script.
ReplaceMapped(content, urls) ==
  IF urls = <<>> THEN content
  ELSE ReplaceMapped(ReplaceAll(content, Head(urls)), Tail(urls))

IsFileTag(tag) == tag.form = "local"

\* The body of article k in the document.
FinalBody(v, k) ==
  CASE v \in {"index", "html"} ->
         LET OfArticle(d) == d.art = k
         IN SubstituteLocal(batch[k], SelectSeq(downloadedImages, OfArticle))
    [] v = "base64" -> ProcessImages(batch[k], Mapped)
    [] v = "epub" ->
         SelectSeq(ReplaceMapped(batch[k], MappedUrls), IsFileTag)

\* One iteration of an image loop that calls the downloader, up to the
\* return of its await (or for ever at it).
DownloadOne ==
  /\ bpc = "downloading"
  /\ Remaining # {}
  /\ LET j == Min(Remaining)
         job == Jobs(variant, batch)[j]
     IN \E b \in Behaviours : \E o \in Outcomes(variant, b) :
          /\ imgLog' = Append(imgLog, [art |-> job.art, url |-> job.url,
                                       out |-> o, res |-> Result(b, o)])
          /\ IF o = "pending"
             THEN /\ bpc' = "hung"
                  /\ UNCHANGED <<cursor, downloadedImages>>
             ELSE /\ cursor' = j + 1
                  /\ downloadedImages' =
                       IF Recorded(variant, o)
                       THEN Append(downloadedImages, job) ELSE downloadedImages
                  /\ UNCHANGED bpc
  /\ UNCHANGED <<batch, bodies>>
  /\ UNCHANGED <<mainVars, variant, imgVars, fnVars>>

\* The image loops are over: the bodies are rewritten and the document is
\* written.
WriteDocument ==
  /\ bpc = "downloading"
  /\ Remaining = {}
  /\ bodies' = [k \in DOMAIN batch |-> FinalBody(variant, k)]
  /\ bpc' = "written"
  /\ UNCHANGED <<batch, cursor, downloadedImages, imgLog>>
  /\ UNCHANGED <<mainVars, variant, imgVars, fnVars>>

BatchNext == DownloadOne \/ WriteDocument

InitBatch ==
  /\ MainInit
  /\ disk = AbsentFile
  /\ ImgInit
  /\ variant \in Variants
  /\ batch \in Batches
  /\ bpc = "downloading"
  /\ cursor = 1
  /\ downloadedImages = <<>>
  /\ imgLog = <<>>
  /\ bodies = <<>>
  /\ FnIdle

SpecBatch == InitBatch /\ [][BatchNext]_vars

\* ------------------------------------------------- functions on their own

\* Nothing runs but the function applied.
OnlyFn ==
  /\ MainInit
  /\ disk = AbsentFile
  /\ variant = "none"
  /\ ImgInit
  /\ BatchIdle

\* The function returns.
Return(f, value) ==
  /\ fn = f
  /\ fnpc = "called"
  /\ ret' = value
  /\ fnpc' = "returned"
  /\ UNCHANGED <<fn, arg>>
  /\ UNCHANGED <<mainVars, variant, imgVars, batchVars>>

ArticleC == Href(TRUE, "engineering", "c")
ArticleD == Href(TRUE, "news", "d")
\* A link to /news/x of another host, or a relative one.
Offsite == Href(FALSE, "news", "x")

\* The hyperlinks of the listing pages given to extractArticles.
ExtractHrefs == {ArticleA, ArticleB, ArticleC, ArticleD, Careers, Offsite}

InitExtract ==
  /\ OnlyFn
  /\ fn = "extractArticles"
  /\ fnpc = "called"
  /\ arg \in SeqsUpTo(ExtractHrefs, MaxHrefs)
  /\ ret = <<>>

ExtractReturns == Return("extractArticles", ExtractArticles(arg))

SpecExtract == InitExtract /\ [][ExtractReturns]_vars

\* ------------------------------------------- the container of the body

\* patterns of extractArticle (extract-articles.js 174-179), by what they
\* match: <main>, <article>, a div of class prose, a div of class article.
Patterns == <<"main", "article", "prose", "articleClass">>

\* The length of match[1] for one pattern (0: the pattern does not match,
\* or matches an empty container).
MatchLengths == {0, 1000, 1001, 2000}

\* A saved page, by what the extractor's patterns find in it: the length
\* of the match of each pattern and whether there is a <body>.
SavedPages == [matches : [DOMAIN Patterns -> MatchLengths], hasBody : BOOLEAN]

\* The content extractArticle takes: the loop over the patterns stops at
\* the first whose match is longer than 1000; without one, the content of
\* <body>, or the whole page when there is no <body>.
ExtractContent(page) ==
  LET accepted == {i \in DOMAIN Patterns : page.matches[i] > 1000}
  IN IF accepted # {}
     THEN [from |-> Patterns[Min(accepted)], len |-> page.matches[Min(accepted)]]
     ELSE [from |-> IF page.hasBody THEN "body" ELSE "html", len |-> 0]

InitContent ==
  /\ OnlyFn
  /\ fn = "extractContent"
  /\ fnpc = "called"
  /\ arg \in SavedPages
  /\ ret = <<>>

ContentReturns == Return("extractContent", ExtractContent(arg))

SpecContent == InitContent /\ [][ContentReturns]_vars

\* ------------------------------------------------ the clean-up of a body

\* An element of a body: its tag, and whether its closing tag is in the
\* body too.
Element(tag, closed) == [tag |-> tag, closed |-> closed]

Elements ==
  {Element(t, c) : t \in {"script", "style", "nav", "form", "svg", "p"},
                   c \in BOOLEAN}

\* The tags for which the clean-up of a script has a replace
\* (/<tag[^>]*>[\s\S]*?<\/tag>/gi by nothing).
Stripped(v) ==
  CASE v = "index" ->
         {"script", "style", "nav", "header", "footer", "aside", "iframe", "form"}
    [] v = "all" ->
         {"script", "style", "nav", "header", "footer", "aside", "iframe", "form",
          "noscript", "svg"}
    [] v \in {"base64", "epub"} ->
         {"script", "style", "nav", "header", "footer", "aside", "svg", "button"}

\* The chain of replaces: an element goes when its tag has a replace and
\* its closing tag is there for the pattern to match.
Sanitize(v, content) ==
  LET Stays(e) == ~(e.tag \in Stripped(v) /\ e.closed)
  IN SelectSeq(content, Stays)

InitSanitize ==
  /\ MainInit
  /\ disk = AbsentFile
  /\ variant \in {"index", "all", "base64", "epub"}
  /\ ImgInit
  /\ BatchIdle
  /\ fn = "sanitize"
  /\ fnpc = "called"
  /\ arg \in SeqsUpTo(Elements, MaxElements)
  /\ ret = <<>>

SanitizeReturns == Return("sanitize", Sanitize(variant, arg))

SpecSanitize == InitSanitize /\ [][SanitizeReturns]_vars

\* ------------------------------------------- which articles go into the document

\* The scripts with a loop over extracted articles: index.js main, the
\* three scripts of extract-articles.js (processArticles "html", the
\* all-articles script "all", the EPUB compiler "epub") and compile-epub.js
\* ("base64", both of its scripts).
Scripts == {"index", "html", "all", "base64", "epub"}

\* A title: its text in lower case without surrounding whitespace, whether
\* it is written in upper case, whether whitespace surrounds it.
Title(text, upper, padded) == [text |-> text, upper |-> upper, padded |-> padded]

\* title.toLowerCase().trim()
ToLowerCaseTrim(title) == Title(title.text, FALSE, FALSE)

Titles ==
  {Title("t", FALSE, FALSE), Title("t", TRUE, FALSE), Title("t", FALSE, TRUE),
   Title("u", FALSE, FALSE)}

\* article.content.length of the extracted articles.
Lengths == {0, 500, 501}

\* What extractArticle (index.js: downloadArticle) returned for a page.
Extracted == [title : Titles, len : Lengths]

RECURSIVE FileLoop(_, _, _, _, _)
\* The loop over the files from file i on, with the articles pushed (their
\* file numbers) and the seenTitles so far.  The compilers skip a title
\* already seen, add the title to seenTitles, then push the article when
\* its content is longer than 500; the all-articles script only tests the
\* length; processArticles and index.js push every article they got.
FileLoop(v, files, i, articles, seenTitles) ==
  IF i > Len(files) THEN articles
  ELSE LET article == files[i]
           normalizedTitle == ToLowerCaseTrim(article.title)
       IN CASE v \in {"base64", "epub"} ->
                 IF normalizedTitle \in seenTitles
                 THEN FileLoop(v, files, i + 1, articles, seenTitles)
                 ELSE FileLoop(v, files, i + 1,
                               IF article.len > 500 THEN Append(articles, i)
                               ELSE articles,
                               seenTitles \cup {normalizedTitle})
            [] v = "all" ->
                 FileLoop(v, files, i + 1,
                          IF article.len > 500 THEN Append(articles, i)
                          ELSE articles,
                          seenTitles)
            [] OTHER -> FileLoop(v, files, i + 1, Append(articles, i), seenTitles)

\* The articles of the document: the numbers of their files.
CollectArticles(v, files) == FileLoop(v, files, 1, <<>>, {})

InitCollect ==
  /\ MainInit
  /\ disk = AbsentFile
  /\ variant \in Scripts
  /\ ImgInit
  /\ BatchIdle
  /\ fn = "collect"
  /\ fnpc = "called"
  /\ arg \in SeqsUpTo(Extracted, MaxFiles)
  /\ ret = <<>>

CollectReturns == Return("collect", CollectArticles(variant, arg))

SpecCollect == InitCollect /\ [][CollectReturns]_vars

\* ------------------------------------------------ the order of the document

\* article.category: extractArticle derives it from the name of the file.
Categories == {"Research", "Engineering", "News"}

\* (categoryOrder[c] || 4)
CategoryOrder(c) ==
  CASE c = "Research" -> 1
    [] c = "Engineering" -> 2
    [] c = "News" -> 3
    [] OTHER -> 4

\* Texts the date patterns of extractArticle capture that name a day of the
\* calendar, with the day they name (in days since 1 January 1970).
CalendarDates == {"Jan 5, 2026", "Mar 9, 2026"}
DayOf(text) == IF text = "Jan 5, 2026" THEN 20458 ELSE 20521

\* article.date: the empty string when no pattern matched, else the text
\* captured by /([A-Z][a-z]+ \d+, \d{4})/i, which is any word followed by
\* a number, a comma and a year.
DateTexts == {"", "Issue 3, 2026"} \cup CalendarDates

\* new Date(date || 0): the time value of the text, Date(0) for the empty
\* string, an invalid Date (NaN) for a text that names no day.
NewDate(date) ==
  IF date = "" THEN [nan |-> FALSE, t |-> 0]
  ELSE IF date \in CalendarDates THEN [nan |-> FALSE, t |-> DayOf(date)]
  ELSE [nan |-> TRUE, t |-> 0]

\* The comparison function given to articles.sort; a difference with an
\* invalid Date is NaN.
Comparator(a, b) ==
  LET catDiff == CategoryOrder(a.category) - CategoryOrder(b.category)
      da == NewDate(a.date)
      db == NewDate(b.date)
  IN IF catDiff # 0 THEN [nan |-> FALSE, v |-> catDiff]
     ELSE IF da.nan \/ db.nan THEN [nan |-> TRUE, v |-> 0]
     ELSE [nan |-> FALSE, v |-> db.t - da.t]

\* Array.prototype.sort reads the result of the comparison function as +0
\* when it is NaN.
SortCompare(a, b) ==
  LET r == Comparator(a, b) IN IF r.nan THEN 0 ELSE r.v

\* The extracted articles given to the sort.
SortArticle == [category : Categories, date : DateTexts]

RECURSIVE RunEnd(_, _, _)
\* The sort of the runtime, for an array this short: the length of the run
\* the array starts with (strictly descending, or ascending), idx being the
\* next element to look at.
RunEnd(a, idx, isDescending) ==
  IF idx > Len(a) THEN Len(a)
  ELSE LET order == SortCompare(a[idx], a[idx - 1])
       IN IF (isDescending /\ order >= 0) \/ (~isDescending /\ order < 0)
          THEN idx - 1
          ELSE RunEnd(a, idx + 1, isDescending)

\* The array with its first run made ascending, and the length of the run.
CountAndMakeRun(a) ==
  IF Len(a) < 2 THEN [array |-> a, length |-> Len(a)]
  ELSE LET isDescending == SortCompare(a[2], a[1]) < 0
           n == RunEnd(a, 3, isDescending)
       IN [array |-> IF isDescending
                     THEN [i \in DOMAIN a |-> IF i <= n THEN a[n + 1 - i] ELSE a[i]]
                     ELSE a,
           length |-> n]

RECURSIVE BinarySearch(_, _, _, _)
\* Where the pivot goes among the sorted a[left .. right - 1].
BinarySearch(a, pivot, left, right) ==
  IF left >= right THEN left
  ELSE LET mid == left + ((right - left) \div 2)
       IN IF SortCompare(pivot, a[mid]) < 0
          THEN BinarySearch(a, pivot, left, mid)
          ELSE BinarySearch(a, pivot, mid + 1, right)

RECURSIVE BinaryInsertionSort(_, _)
\* The elements from start on inserted one by one into the sorted prefix.
BinaryInsertionSort(a, start) ==
  IF start > Len(a) THEN a
  ELSE LET pivot == a[start]
           left == BinarySearch(a, pivot, 1, start)
           inserted == [i \in DOMAIN a |->
                          IF i < left THEN a[i]
                          ELSE IF i = left THEN pivot
                          ELSE IF i <= start THEN a[i - 1]
                          ELSE a[i]]
       IN BinaryInsertionSort(inserted, start + 1)

\* articles.sort((a, b) => ...)
ArraySort(a) ==
  LET firstRun == CountAndMakeRun(a)
  IN BinaryInsertionSort(firstRun.array, firstRun.length + 1)

\* A chapter of the document: the heading of a category, or an article.
Heading(c) == [kind |-> "heading", category |-> c, date |-> ""]
Chapter(article) ==
  [kind |-> "article", category |-> article.category, date |-> article.date]

RECURSIVE BuildChapters(_, _, _, _)
\* The loop over the sorted articles: a heading when the category of the
\* article differs from currentCategory, then the article.
BuildChapters(articles, i, currentCategory, chapters) ==
  IF i > Len(articles) THEN chapters
  ELSE LET article == articles[i]
       IN BuildChapters(articles, i + 1, article.category,
            Append(IF article.category # currentCategory
                   THEN Append(chapters, Heading(article.category))
                   ELSE chapters,
                   Chapter(article)))

\* The chapters of the document made from the extracted articles.
Assemble(articles) == BuildChapters(ArraySort(articles), 1, "", <<>>)

InitAssemble ==
  /\ OnlyFn
  /\ fn = "assemble"
  /\ fnpc = "called"
  /\ arg \in SeqsUpTo(SortArticle, MaxSorted)
  /\ ret = <<>>

AssembleReturns == Return("assemble", Assemble(arg))

SpecAssemble == InitAssemble /\ [][AssembleReturns]_vars

\* ------------------------------------------------------- claims on index.js main

Is2xx(status) == status \in 200..299

\* The listings of the current run have all been gone through.
PastListings == run > 0 /\ pc \notin {"fetchPage", "crashed"}

\* Every article of the current run has been through downloadArticle.
PastDownloads == pc \in {"noDownload", "sendKindle", "sendConfirm", "failed", "done"}

\* C1: a url that is the url of a record of the state loaded at the start
\* of a run is not in that run's newArticles, is not passed to
\* downloadArticle in that run and is in no section of the document that
\* run writes and sends; in every run of any sequence of runs.
C1_SentUrlsExcluded ==
  \A u \in DiskUrls(diskAtStart) :
    /\ u \notin Range(newArticles)
    /\ u \notin Range(requested)
    /\ u \notin DocUrls(document)

\* A second run that loaded a state listing article a has found, downloaded
\* and sent article b.
C1_Witness ==
  /\ run = 2
  /\ ArticleA \in DiskUrls(diskAtStart)
  /\ pc = "done"
  /\ newArticles = <<ArticleB>>
  /\ DocUrls(document) = {ArticleB}

\* C2: once the primary send of a run has succeeded and its confirmation
\* send has failed, no primary delivery of a later run contains a url of
\* that delivered batch.  (At sendConfirm the primary send of the current
\* run has just succeeded; unconfirmed holds the batches of earlier runs.)
C2_NoResendAfterFailedConfirmation ==
  pc = "sendConfirm" => DocUrls(document) \cap unconfirmed = {}

\* C3: from an absent state file, a run that finds exactly 2 new urls,
\* downloads both and sends both mails writes a document of exactly 2
\* sections and a state file listing exactly those 2 urls, each with a
\* date, and a lastCheck.
C3_TwoNewArticles ==
  ( /\ pc = "done"
    /\ diskAtStart.kind = "absent"
    /\ Len(newArticles) = 2
    /\ Cardinality(Range(newArticles)) = 2
    /\ Len(processedArticles) = 2 )
  => /\ Len(document) = 2
     /\ DocUrls(document) = Range(newArticles)
     /\ disk.kind = "json"
     /\ Len(disk.sent) = 2
     /\ DiskUrls(disk) = Range(newArticles)
     /\ \A i \in DOMAIN disk.sent : disk.sent[i].date # Null
     /\ disk.lastCheck # Null

\* The first run, from an absent file, has found a and b and has ended
\* normally.
C3_Witness ==
  /\ pc = "done"
  /\ diskAtStart.kind = "absent"
  /\ Range(newArticles) = {ArticleA, ArticleB}
  /\ Len(newArticles) = 2
  /\ Len(processedArticles) = 2

\* C9: an article whose page answers with an error status is not turned
\* into an article section and is not recorded as sent (fetchUrl rejecting
\* on a non-2xx final response).
C9_ErrorStatusNotRecorded ==
  \A i \in DOMAIN processedArticles : Is2xx(processedArticles[i].data.status)

\* C10: a listing whose fetch fails is skipped and the run goes on: every
\* listing is still fetched, newArticles holds exactly the new urls of the
\* listings that resolved, all of them are passed to downloadArticle, and
\* the run ends as a failure only after the document was written (on a
\* mail send).
C10_FailedListingSkipped ==
  /\ pc = "fetchPage" => Len(pageLog) = pageIdx - 1
  /\ PastListings => Len(pageLog) = Len(Pages)
  /\ newArticles = listed
  /\ PastDownloads => requested = newArticles
  /\ pc = "failed" => document # <<>>
  /\ pc = "done" => Range(newArticles) \cap DiskUrls(disk) = DocUrls(document)

\* The first listing failed; the url of a later listing was found,
\* downloaded, sent and recorded.
C10_Witness ==
  /\ pc = "done"
  /\ pageLog = <<FALSE, TRUE, TRUE>>
  /\ newArticles # <<>>
  /\ DocUrls(document) = Range(newArticles)

\* ---------------------------------------------------- claims on the downloaders

\* C6: every image download finishes, whatever the server does: its call
\* settles after a bounded wait and the loop gets to the end of its images
\* (index.js downloadFile, the base64 and the EPUB downloadImage).
C6_DownloadsFinish ==
  variant \in {"index", "base64", "epub"} => <>(imgIdx > MaxImages)

\* C7: on every failure (timeout, non-200 status, transport error) the
\* downloader resolves null: it never rejects, and it gives a path or data
\* URI only for an image received to its end (index.js downloadFile, the
\* first downloadImage of extract-articles.js, the base64 downloadImage).
C7_FailureGivesNull ==
  variant \in {"index", "html", "base64"} =>
    \A i \in Images :
      /\ promise[i] # "rejected"
      /\ promise[i] = "value" => req[i] = "over"

\* ------------------------------------------------ claims on the image pipelines

\* The requests made for image u that count for article k: those of the
\* article's own loop, or of the whole batch where the map is shared.
Attempts(k, u) ==
  {e \in Range(imgLog) :
     e.url = u /\ (e.art = k \/ variant \in {"base64", "epub"})}

\* The written body of article k has a tag with the remote url of u.
RemoteIn(k, u) == Tag(u, "remote") \in Range(bodies[k])

\* The written body of article k shows u from a local file or a data URI.
LocalIn(k, u) ==
  Tag(u, "local") \in Range(bodies[k]) \/ Tag(u, "embedded") \in Range(bodies[k])

\* C4: in every variant, for every article body of a written document and
\* every image it refers to: when the image's download succeeded the body
\* refers to it in the local or embedded form only, and when it failed the
\* body has no reference to its remote url.
C4_ImageSubstitution ==
  bpc = "written" =>
    \A k \in DOMAIN batch : \A u \in Range(Srcs(batch[k])) :
      /\ (\E e \in Attempts(k, u) : e.res = "ok") =>
           LocalIn(k, u) /\ ~RemoteIn(k, u)
      /\ (\E e \in Attempts(k, u) : e.res # "ok") => ~RemoteIn(k, u)

\* C5: when an image fetch times out, the downloader call yields null (it
\* does not throw), and the document written for the article has no <img>
\* tag with the url that failed (the EPUB and base64 scripts, index.js).
C5_TimedOutImageLeavesNoTag ==
  variant \in {"index", "base64", "epub"} /\ bpc = "written" =>
    \A k \in DOMAIN batch : \A u \in Range(Srcs(batch[k])) :
      \A e \in Attempts(k, u) :
        e.res = "timeout" => e.out = "null" /\ ~RemoteIn(k, u)

\* C8: within one batch each image url is requested at most once, also
\* when several articles refer to it and when its download fails (the EPUB
\* and base64 scripts).
C8_EachUrlRequestedOnce ==
  variant \in {"base64", "epub"} =>
    \A u \in ImageUrls :
      Cardinality({i \in DOMAIN imgLog : imgLog[i].url = u}) <= 1

\* ------------------------------------------------ more claims on index.js main

\* main has returned without an exception.
ReturnedNormally == pc \in {"noNew", "noDownload", "done"}

\* The number of events e in the log of the run.
Count(log, e) == Cardinality({i \in DOMAIN log : log[i] = e})

\* C11: in every run of main the state file is read once, first of all,
\* and a run that has returned normally has written it once, as its last
\* step.
C11_StateReadOnceWrittenOnce ==
  run > 0 =>
    /\ ioLog[1] = "read" /\ Count(ioLog, "read") = 1
    /\ Count(ioLog, "write") <= 1
    /\ ReturnedNormally =>
         Count(ioLog, "write") = 1 /\ ioLog[Len(ioLog)] = "write"

\* C13: a run that finds the state file absent, unparseable or without a
\* usable RunState starts from the empty state and goes on without
\* throwing.
C13_UnusableStateIsEmptyState ==
  run > 0 /\ diskAtStart.kind # "json" =>
    /\ pc # "crashed"
    /\ sentUrls = {}
    /\ HasSent(data)

\* C12: when a mail send has failed and ended the run, the document
\* written before the send is still there and the records of the processed
\* articles are kept: the state file has them.
C12_MailFailureKeepsRecords ==
  pc = "failed" =>
    /\ document # <<>>
    /\ \A i \in DOMAIN processedArticles :
         processedArticles[i].url \in DiskUrls(disk)

\* C14: no two records of the sent list of the state file have the same
\* url, whatever the runs made and the pages an article is linked from.
C14_UrlIsUniqueKey ==
  disk.kind = "json" =>
    \A i, j \in DOMAIN disk.sent :
      disk.sent[i].url = disk.sent[j].url => i = j

\* ------------------------------------------------------ claims on functions

\* The position of the first occurrence of x in s.
FirstAt(s, x) == CHOOSE i \in DOMAIN s : s[i] = x /\ \A j \in 1..(i - 1) : s[j] # x

\* The allow-listed links of a page: absolute urls of the site whose path
\* has /news/, /engineering/ or /research/.
AllowListed(html) ==
  {h \in Range(html) : h.site /\ h.sect \in {"news", "engineering", "research"}}

\* C15: for a page with N distinct allow-listed links and M others,
\* extractArticles returns allow-listed urls only, none twice, in the order
\* of their first appearance, and they are the first 3 of the N (all N
\* when N <= 3).
C15_ExtractArticles ==
  fn = "extractArticles" /\ fnpc = "returned" =>
    LET n == Cardinality(AllowListed(arg))
    IN /\ Range(ret) \subseteq AllowListed(arg)
       /\ Len(ret) = IF n < 3 THEN n ELSE 3
       /\ \A i, j \in DOMAIN ret :
            i < j => FirstAt(arg, ret[i]) < FirstAt(arg, ret[j])
       /\ \A h \in AllowListed(arg) \ Range(ret) :
            \A i \in DOMAIN ret : FirstAt(arg, ret[i]) < FirstAt(arg, h)

\* A page with 4 distinct allow-listed links, one of them twice before the
\* third, has given its first 3.
C15_Witness ==
  /\ fn = "extractArticles" /\ fnpc = "returned"
  /\ arg = <<ArticleB, ArticleA, ArticleB, ArticleD, ArticleC>>
  /\ ret = <<ArticleB, ArticleA, ArticleD>>

\* The articles of the document whose title, lower-cased and trimmed, is t.
Titled(t) == {k \in Range(ret) : ToLowerCaseTrim(arg[k].title) = t}

\* C16: in the compilers, of two articles whose titles differ only in
\* letter case or surrounding whitespace (one of them at least with a body
\* long enough to be kept), the second is dropped and the document has
\* exactly one article with that title.
C16_DuplicateTitleDropped ==
  fn = "collect" /\ fnpc = "returned" /\ variant \in {"base64", "epub"} =>
    \A i, j \in DOMAIN arg :
      ( /\ i < j
        /\ ToLowerCaseTrim(arg[i].title) = ToLowerCaseTrim(arg[j].title)
        /\ (arg[i].len > 500 \/ arg[j].len > 500) )
      => /\ j \notin Range(ret)
         /\ Cardinality(Titled(ToLowerCaseTrim(arg[i].title))) = 1

\* C19: an article whose body is empty or not longer than the minimum
\* length has no section in the document, and the articles whose body is
\* longer and whose title no other article has are all there (the
\* compilers, the all-articles script, index.js).
C19_ShortBodyDropped ==
  fn = "collect" /\ fnpc = "returned"
  /\ variant \in {"base64", "epub", "all", "index"} =>
    \A i \in DOMAIN arg :
      /\ arg[i].len <= 500 => i \notin Range(ret)
      /\ ( /\ arg[i].len > 500
           /\ \A j \in DOMAIN arg \ {i} :
                ToLowerCaseTrim(arg[j].title) # ToLowerCaseTrim(arg[i].title) )
         => i \in Range(ret)

\* C17: whatever the markup, already when each of its elements has its
\* closing tag, the body that the clean-up of an extractor returns has no
\* <script>, <style>, <nav>, <form> or <svg> tag.
C17_SanitizedBody ==
  ( /\ fn = "sanitize" /\ fnpc = "returned"
    /\ \A i \in DOMAIN arg : arg[i].closed )
  => \A i \in DOMAIN ret :
       ret[i].tag \notin {"script", "style", "nav", "form", "svg"}

\* ------------------------------------------- more claims on the downloaders

\* The request made for image i has not ended.
InFlight(i) == req[i] \in {"waiting", "streaming"}

\* C18: no two network operations overlap: a download is started only
\* when the one before it is over, so at most one request is in flight at
\* any moment, also after a download was given up by its timeout (the
\* image loops of compile-epub.js and of index.js downloadArticle).
C18_OneRequestInFlight ==
  variant \in {"base64", "index"} =>
    Cardinality({i \in Images : InFlight(i)}) <= 1

\* ------------------------------------------- more claims on functions

\* The lengths of the matches of a page that are longer than 1000.
Accepted(page) ==
  {page.matches[i] : i \in DOMAIN page.matches} \ (0..1000)

\* C20: the multi-pattern extractor returns the longest of the matches
\* longer than 1000 characters; only when no pattern has such a match does
\* it take the content of <body>, and the whole page without a <body>.
C20_LongestMatchWins ==
  fn = "extractContent" /\ fnpc = "returned" =>
    IF Accepted(arg) # {}
    THEN /\ ret.from \in Range(Patterns)
         /\ \A l \in Accepted(arg) : l <= ret.len
    ELSE ret.from = IF arg.hasBody THEN "body" ELSE "html"

\* ------------------------------------------- the state file and the sends

\* The urls of the state file that were not in it when the run started.
NewOnDisk == DiskUrls(disk) \ DiskUrls(diskAtStart)

\* C22: the state file gets new sent records only after both the Kindle
\* send and the confirmation send of the run have succeeded, and each url
\* it has that was not there when the run started is the url of a section
\* of the document of the run, whose Kindle delivery succeeded.
C22_NewRecordsOnlyAfterBothSends ==
  NewOnDisk # {} =>
    /\ Count(ioLog, "mail") = 2
    /\ Count(ioLog, "mailFailed") = 0
    /\ ioLog[Len(ioLog)] = "write"
    /\ NewOnDisk \subseteq DocUrls(document)

\* A run from a state file listing article a has sent b, both mails, and
\* has written b to the state file.
C22_Witness ==
  /\ run = 2
  /\ pc = "done"
  /\ DiskUrls(diskAtStart) = {ArticleA}
  /\ NewOnDisk = {ArticleB}

\* C24: on the 'no new articles' path the state written has the sent list
\* that was loaded, records and order, with a new lastCheck; no article
\* page was fetched, no document written and no mail sent.
C24_NoNewArticlesFrame ==
  pc = "noNew" =>
    /\ disk.kind = "json"
    /\ disk.sent = LoadSentArticles(diskAtStart).sent
    /\ disk.lastCheck = Timestamp(run)
    /\ requested = <<>>
    /\ processedArticles = <<>>
    /\ document = <<>>
    /\ Count(ioLog, "mail") + Count(ioLog, "mailFailed") = 0
    /\ Count(ioLog, "fetch") = Len(Pages)

\* A second run has found nothing new and has written the record of the
\* first run again.
C24_Witness ==
  /\ run = 2
  /\ pc = "noNew"
  /\ Len(disk.sent) = 1
  /\ diskAtStart.lastCheck = Timestamp(1)
  /\ disk.lastCheck = Timestamp(2)

\* The urls for which a call of downloadArticle has returned in this run,
\* and those of the calls that returned article data.
Completed ==
  IF pc = "downloadArticle" THEN SubSeq(requested, 1, artIdx - 1) ELSE requested

ProcessedUrls == [i \in DOMAIN processedArticles |-> processedArticles[i].url]

\* A call of downloadArticle for u has returned null in this run.
ReturnedNull(u) == Count(Completed, u) > Count(ProcessedUrls, u)

\* C23: a new url for which downloadArticle returned null has no section
\* in the document and no record in data.sent, the other new urls of the
\* run are still passed to downloadArticle, and the url is not in the
\* state file, so that the next run that finds it takes it as new.
C23_NullArticleSkipped ==
  \A u \in Range(Completed) :
    ReturnedNull(u) =>
      /\ u \notin DocUrls(document)
      /\ u \notin {data.sent[i].url : i \in DOMAIN data.sent}
      /\ u \notin DiskUrls(disk)
      /\ PastDownloads => requested = newArticles

\* ------------------------------------------- the image file of the EPUB script

\* C25: in the downloadImage of the EPUB script the first of timeout,
\* response end and error fixes the outcome: after the timeout has
\* resolved the call with null a late response end writes no file, so the
\* file img-<index> exists only if the call for that index resolved with
\* its file:// path.
C25_FileOnlyIfResolvedWithPath ==
  variant = "epub" =>
    \A i \in Images : imgFile[i] # "none" => promise[i] = "value"

\* ------------------------------------------------- the order of the document

\* The place of a category in the order Research, Engineering, News.
Rank(c) == CHOOSE k \in 1..3 : <<"Research", "Engineering", "News">>[k] = c

\* The chapter bears a date of the calendar.
Dated(chapter) == chapter.date \in CalendarDates

ArticleAt(doc) == {i \in DOMAIN doc : doc[i].kind = "article"}
HeadingAt(doc, c) ==
  {i \in DOMAIN doc : doc[i].kind = "heading" /\ doc[i].category = c}

\* C21: in the assembled document the articles are in the order of the
\* categories Research, Engineering, News and, inside one category, in the
\* order of non-increasing date; the heading of each category is emitted
\* exactly once, immediately before the first article of that category.
C21_OrderedUnderHeadings ==
  (fn = "assemble" /\ fnpc = "returned") =>
    /\ \A i, j \in ArticleAt(ret) :
         i < j =>
           /\ Rank(ret[i].category) <= Rank(ret[j].category)
           /\ (ret[i].category = ret[j].category /\ Dated(ret[i]) /\ Dated(ret[j]))
                => DayOf(ret[i].date) >= DayOf(ret[j].date)
    /\ \A i \in ArticleAt(ret) :
         LET c == ret[i].category
             first == CHOOSE k \in ArticleAt(ret) :
                        /\ ret[k].category = c
                        /\ \A l \in ArticleAt(ret) : ret[l].category = c => k <= l
         IN HeadingAt(ret, c) = {first - 1}

====
